---- MODULE Spec2Model ----
(***************************************************************************)
(* Model of src/src/util/go-swan/cluster.go: the swan cluster, a list of   *)
(* members (endpoint, status) behind one sync.RWMutex, the operations      *)
(* getMember, markDown, membersList and size called by any number of       *)
(* goroutines, and the healthCheckNode goroutines markDown starts.         *)
(***************************************************************************)
EXTENDS Naturals, Sequences, FiniteSets, Bags, TLC

\* cluster.go:13-16
memberStatusUp == 0
memberStatusDown == 1

\* Bound of the model: the number of goroutines calling into the cluster.
NumCallers == 2

Callers == 1..NumCallers

\* Normalised endpoints, as newCluster stores them (u.String()).
Endpoints == {"http://a", "http://b"}

\* The error getMember returns when no member is up.
ErrSwanDown == "ErrSwanDown"

\* Outcomes of c.client.Get: transport error, or a response with a status code.
HTTPResults ==
  { [err |-> FALSE, StatusCode |-> 200],
    [err |-> FALSE, StatusCode |-> 503],
    [err |-> TRUE, StatusCode |-> 0] }

\* A healthCheckNode goroutine: its position and the result of its last
\* c.client.Get (NoResponse before the call returns).
NoResponse == [err |-> FALSE, StatusCode |-> 0]

Probe(pc, res) == [pc |-> pc, res |-> res]

VARIABLES
  members,  \* c.members: sequence of [endpoint, status]
  mu,       \* the embedded sync.RWMutex: [w: the writer slot, r: number of readers]
  call,     \* per calling goroutine: the call in progress and its position
  probes    \* per member: bag of the positions of its healthCheckNode goroutines

vars == <<members, mu, call, probes>>

\* A goroutine that is not inside any call. hit, sawUp and recSeen are history
\* fields of a markDown call: the index of the member it marked down (0: none),
\* whether a member with its endpoint was up when it was called, and whether
\* the probe of the member it marked down has made its recovery write since.
Idle ==
  [ op |-> "none", pc |-> "idle", endpoint |-> "", status |-> memberStatusUp,
    i |-> 0, list |-> <<>>, ret |-> "", err |-> "nil", n |-> 0,
    hit |-> 0, sawUp |-> FALSE, recSeen |-> FALSE ]

\* newCluster appends &member{endpoint: u.String()}: status is the zero value,
\* memberStatusUp (cluster.go:75).
NewMember(endpoint) == [endpoint |-> endpoint, status |-> memberStatusUp]

\* The clusters newCluster can have built, up to the names of the endpoints:
\* one member, two members with different endpoints, the same endpoint twice.
Registries ==
  { <<NewMember("http://a")>>,
    <<NewMember("http://a"), NewMember("http://b")>>,
    <<NewMember("http://a"), NewMember("http://a")>> }

Init ==
  /\ members \in Registries
  /\ mu = [w |-> "free", r |-> 0]
  /\ call = [c \in Callers |-> Idle]
  /\ probes = [k \in 1..Len(members) |-> EmptyBag]

----
\* sync.RWMutex, as the sync package implements it: Lock first takes the writer
\* slot, which stops new readers, then waits for the readers inside to leave.
\* mu.w is "free", "wait" (a writer holds the slot and waits for the readers)
\* or "held"; mu.r counts the readers inside.

RLockFreeAlways(m) == TRUE

RLockFree(m) == m.w = "free"

LockFreeAlways(m) == TRUE

LockFree(m) == m.w = "free"

ReadersGoneAlways(m) == TRUE

ReadersGone(m) == m.r = 0

RLocked(m) == [m EXCEPT !.r = @ + 1]
RUnlocked(m) == [m EXCEPT !.r = @ - 1]
Locked(m) == [m EXCEPT !.w = IF ReadersGone(m) THEN "held" ELSE "wait"]
Entered(m) == [m EXCEPT !.w = "held"]
Unlocked(m) == [m EXCEPT !.w = "free"]

----
\* getMember

GmCall(c) ==
  /\ call[c].pc = "idle"
  /\ call' = [call EXCEPT ![c] = [Idle EXCEPT !.op = "getMember", !.pc = "gmRLock"]]
  /\ UNCHANGED <<members, mu, probes>>

GmRLockFromLast(c) ==
  /\ call[c].pc = "gmRLock"
  /\ RLockFree(mu)
  /\ mu' = RLocked(mu)
  /\ call' = [call EXCEPT ![c].pc = "gmScan", ![c].i = Len(members)]
  /\ UNCHANGED <<members, probes>>

GmRLock(c) ==
  /\ call[c].pc = "gmRLock"
  /\ RLockFree(mu)
  /\ mu' = RLocked(mu)
  /\ call' = [call EXCEPT ![c].pc = "gmScan", ![c].i = 1]
  /\ UNCHANGED <<members, probes>>

GmScan(c) ==
  /\ call[c].pc = "gmScan"
  /\ LET i == call[c].i IN
     IF members[i].status = memberStatusUp
     THEN /\ call' = [call EXCEPT ![c].pc = "ret", ![c].ret = members[i].endpoint]
          /\ mu' = RUnlocked(mu)
     ELSE IF i < Len(members)
     THEN /\ call' = [call EXCEPT ![c].i = i + 1]
          /\ UNCHANGED mu
     ELSE /\ call' = [call EXCEPT ![c].pc = "ret", ![c].ret = "", ![c].err = ErrSwanDown]
          /\ mu' = RUnlocked(mu)
  /\ UNCHANGED <<members, probes>>

----
\* markDown

AnyUp(ms, endpoint) ==
  \E k \in 1..Len(ms) : ms[k].endpoint = endpoint /\ ms[k].status = memberStatusUp

IsNodeAnyStatus(n, endpoint) == n.endpoint = endpoint

IsNodeUp(n, endpoint) == n.status = memberStatusUp /\ n.endpoint = endpoint

MdCall(c, endpoint) ==
  /\ call[c].pc = "idle"
  /\ call' = [call EXCEPT ![c] = [Idle EXCEPT !.op = "markDown", !.pc = "mdLock",
                                              !.endpoint = endpoint,
                                              !.sawUp = AnyUp(members, endpoint)]]
  /\ UNCHANGED <<members, mu, probes>>

MdLock(c) ==
  /\ call[c].pc = "mdLock"
  /\ LockFree(mu)
  /\ mu' = Locked(mu)
  /\ call' = [call EXCEPT ![c].pc = IF ReadersGone(mu) THEN "mdScan" ELSE "mdWait",
                          ![c].i = 1]
  /\ UNCHANGED <<members, probes>>

MdEnter(c) ==
  /\ call[c].pc = "mdWait"
  /\ ReadersGone(mu)
  /\ mu' = Entered(mu)
  /\ call' = [call EXCEPT ![c].pc = "mdScan"]
  /\ UNCHANGED <<members, probes>>

MdScan(c) ==
  /\ call[c].pc = "mdScan"
  /\ LET i == call[c].i IN
     IF IsNodeUp(members[i], call[c].endpoint)
     THEN /\ call' = [call EXCEPT ![c].pc = "mdWrite"]
          /\ UNCHANGED mu
     ELSE IF i < Len(members)
     THEN /\ call' = [call EXCEPT ![c].i = i + 1]
          /\ UNCHANGED mu
     ELSE /\ call' = [call EXCEPT ![c].pc = "ret"]
          /\ mu' = Unlocked(mu)
  /\ UNCHANGED <<members, probes>>

MdWriteAll(c) ==
  /\ call[c].pc = "mdWrite"
  /\ LET i == call[c].i
         hits == { k \in DOMAIN members : IsNodeUp(members[k], call[c].endpoint) } IN
     /\ members' = [k \in DOMAIN members |->
                      IF k \in hits
                      THEN [members[k] EXCEPT !.status = memberStatusDown]
                      ELSE members[k]]
     /\ probes' = [k \in DOMAIN probes |->
                     IF k \in hits
                     THEN probes[k] (+) SetToBag({Probe("get", NoResponse)})
                     ELSE probes[k]]
     /\ call' = [call EXCEPT ![c].pc = "ret", ![c].hit = i]
  /\ mu' = Unlocked(mu)

MdWrite(c) ==
  /\ call[c].pc = "mdWrite"
  /\ LET i == call[c].i IN
     /\ members' = [members EXCEPT ![i].status = memberStatusDown]
     /\ probes' = [probes EXCEPT ![i] = @ (+) SetToBag({Probe("get", NoResponse)})]
     /\ call' = [call EXCEPT ![c].pc = "ret", ![c].hit = i]
  /\ mu' = Unlocked(mu)

----
\* healthCheckNode

ProbesAt(k, pc) == { p \in BagToSet(probes[k]) : p.pc = pc }

ProbeOKAnyStatus(res) == res.err = FALSE

ProbeOK(res) == res.err = FALSE /\ res.StatusCode = 200

Move(b, from, to) == (b (-) SetToBag({from})) (+) SetToBag({to})

HcGet(k, res) ==
  \E p \in ProbesAt(k, "get") :
    /\ probes' = [probes EXCEPT ![k] =
                   Move(@, p, IF ProbeOK(res) THEN Probe("lock", res)
                                              ELSE Probe("sleep", NoResponse))]
    /\ UNCHANGED <<members, mu, call>>

HcSleepGiveUp(k) ==
  \E p \in ProbesAt(k, "sleep") :
    /\ probes' = [probes EXCEPT ![k] = @ (-) SetToBag({p})]
    /\ UNCHANGED <<members, mu, call>>

HcSleep(k) ==
  \E p \in ProbesAt(k, "sleep") :
    /\ probes' = [probes EXCEPT ![k] = Move(@, p, Probe("get", NoResponse))]
    /\ UNCHANGED <<members, mu, call>>

HcLock(k) ==
  \E p \in ProbesAt(k, "lock") :
    /\ LockFree(mu)
    /\ mu' = Locked(mu)
    /\ probes' = [probes EXCEPT ![k] =
                   Move(@, p, Probe(IF ReadersGone(mu) THEN "write" ELSE "lockWait", p.res))]
    /\ UNCHANGED <<members, call>>

HcEnter(k) ==
  \E p \in ProbesAt(k, "lockWait") :
    /\ ReadersGone(mu)
    /\ mu' = Entered(mu)
    /\ probes' = [probes EXCEPT ![k] = Move(@, p, Probe("write", p.res))]
    /\ UNCHANGED <<members, call>>

HcWriteKeepDown(k) ==
  \E p \in ProbesAt(k, "write") :
    /\ probes' = [probes EXCEPT ![k] = @ (-) SetToBag({p})]
    /\ mu' = Unlocked(mu)
    /\ UNCHANGED <<members, call>>

HcWriteKeepLock(k) ==
  \E p \in ProbesAt(k, "write") :
    /\ members' = [members EXCEPT ![k].status = memberStatusUp]
    /\ probes' = [probes EXCEPT ![k] = @ (-) SetToBag({p})]
    /\ UNCHANGED <<mu, call>>

HcWrite(k) ==
  \E p \in ProbesAt(k, "write") :
    /\ members' = [members EXCEPT ![k].status = memberStatusUp]
    /\ probes' = [probes EXCEPT ![k] = @ (-) SetToBag({p})]
    /\ mu' = Unlocked(mu)
    /\ call' = [c \in Callers |->
                 IF call[c].op = "markDown" /\ call[c].hit = k
                 THEN [call[c] EXCEPT !.recSeen = TRUE]
                 ELSE call[c]]

----
\* membersList (activeMembers, nonActiveMembers)

HasStatusNot(m, status) == m.status # status

HasStatus(m, status) == m.status = status

MlCall(c, status) ==
  /\ call[c].pc = "idle"
  /\ call' = [call EXCEPT ![c] = [Idle EXCEPT !.op = "membersList", !.pc = "mlRLock",
                                              !.status = status]]
  /\ UNCHANGED <<members, mu, probes>>

MlRLock(c) ==
  /\ call[c].pc = "mlRLock"
  /\ RLockFree(mu)
  /\ mu' = RLocked(mu)
  /\ call' = [call EXCEPT ![c].pc = "mlScan", ![c].i = 1]
  /\ UNCHANGED <<members, probes>>

MlScan(c) ==
  /\ call[c].pc = "mlScan"
  /\ LET i == call[c].i
         list == IF HasStatus(members[i], call[c].status)
                 THEN Append(call[c].list, members[i].endpoint)
                 ELSE call[c].list
     IN
     IF i < Len(members)
     THEN /\ call' = [call EXCEPT ![c].i = i + 1, ![c].list = list]
          /\ UNCHANGED mu
     ELSE /\ call' = [call EXCEPT ![c].pc = "ret", ![c].list = list]
          /\ mu' = RUnlocked(mu)
  /\ UNCHANGED <<members, probes>>

----
\* size

SizeUp(c) ==
  /\ call[c].pc = "idle"
  /\ call' = [call EXCEPT ![c] = [Idle EXCEPT !.op = "size", !.pc = "ret",
                 !.n = Cardinality({ k \in DOMAIN members :
                                      members[k].status = memberStatusUp })]]
  /\ UNCHANGED <<members, mu, probes>>

Size(c) ==
  /\ call[c].pc = "idle"
  /\ call' = [call EXCEPT ![c] = [Idle EXCEPT !.op = "size", !.pc = "ret",
                                              !.n = Len(members)]]
  /\ UNCHANGED <<members, mu, probes>>

\* The call returns to its caller.
Return(c) ==
  /\ call[c].pc = "ret"
  /\ call' = [call EXCEPT ![c] = Idle]
  /\ UNCHANGED <<members, mu, probes>>

----
Next ==
  \/ \E c \in Callers : GmCall(c)
  \/ \E c \in Callers : GmRLock(c)
  \/ \E c \in Callers : GmScan(c)
  \/ \E c \in Callers, e \in Endpoints : MdCall(c, e)
  \/ \E c \in Callers : MdLock(c)
  \/ \E c \in Callers : MdEnter(c)
  \/ \E c \in Callers : MdScan(c)
  \/ \E c \in Callers : MdWrite(c)
  \/ \E c \in Callers, s \in {memberStatusUp, memberStatusDown} : MlCall(c, s)
  \/ \E c \in Callers : MlRLock(c)
  \/ \E c \in Callers : MlScan(c)
  \/ \E c \in Callers : Size(c)
  \/ \E c \in Callers : Return(c)
  \/ \E k \in 1..Len(members), res \in HTTPResults : HcGet(k, res)
  \/ \E k \in 1..Len(members) : HcSleep(k)
  \/ \E k \in 1..Len(members) : HcLock(k)
  \/ \E k \in 1..Len(members) : HcEnter(k)
  \/ \E k \in 1..Len(members) : HcWrite(k)

Spec == Init /\ [][Next]_vars

\* The shape of the state: cluster (members, RWMutex), the calls, the probes.
TypeOK ==
  /\ members \in Seq([endpoint : Endpoints, status : {memberStatusUp, memberStatusDown}])
  /\ Len(members) >= 1
  /\ mu.w \in {"free", "wait", "held"} /\ mu.r \in 0..NumCallers
  /\ DOMAIN call = Callers
  /\ \A c \in Callers :
       /\ call[c].op \in {"none", "getMember", "markDown", "membersList", "size"}
       /\ call[c].i \in 0..Len(members)
       /\ call[c].hit \in 0..Len(members)
  /\ DOMAIN probes = DOMAIN members
  /\ \A k \in DOMAIN probes :
       \A p \in BagToSet(probes[k]) :
         p.pc \in {"get", "sleep", "lock", "lockWait", "write"}

\* The member positions of the clusters of Registries.
Slots == UNION { DOMAIN r : r \in Registries }

\* A step of a call in progress, and a step of a probe of member k.
CallStep(c) ==
  \/ GmRLock(c) \/ GmScan(c)
  \/ MdLock(c) \/ MdEnter(c) \/ MdScan(c) \/ MdWrite(c)
  \/ MlRLock(c) \/ MlScan(c)

ProbeStep(k) ==
  /\ k \in DOMAIN members
  /\ \/ \E res \in HTTPResults : HcGet(k, res)
     \/ HcSleep(k)
     \/ HcLock(k) \/ HcEnter(k) \/ HcWrite(k)

\* Scheduling: a goroutine that can run does run, and sync.RWMutex starves no
\* goroutine blocked in RLock or Lock: a goroutine that can step again and
\* again does step. Nothing requires a goroutine to call into the cluster, to
\* return from a call, or a c.client.Get to succeed.
Fairness ==
  /\ \A c \in Callers : SF_vars(CallStep(c))
  /\ \A k \in Slots : SF_vars(ProbeStep(k))

LiveSpec == Spec /\ Fairness

----
\* Vocabulary of the properties.

Up(k) == members[k].status = memberStatusUp
Down(k) == members[k].status = memberStatusDown
Indexes == 1..Len(members)

AnyDown(ms, endpoint) ==
  \E k \in 1..Len(ms) : ms[k].endpoint = endpoint /\ ms[k].status = memberStatusDown

InList(e, list) == \E j \in 1..Len(list) : list[j] = e

\* c's markDown call has done its work and has not yet returned to its caller.
MdRet(c) == call[c].op = "markDown" /\ call[c].pc = "ret"

\* d's markDown marked member k down, and k's probe has not written since.
Demoted(d, k) == MdRet(d) /\ call[d].hit = k /\ ~call[d].recSeen

\* d's markDown marked member k down, k's probe has written, and k is still up.
Recovered(d, k) == MdRet(d) /\ call[d].hit = k /\ call[d].recSeen /\ Up(k)

\* Steps that complete a call.
GmDone(c) == call[c].pc = "gmScan" /\ call'[c].pc = "ret"
MlDone(c) == call[c].pc = "mlScan" /\ call'[c].pc = "ret"
MdMiss(c) == call[c].pc = "mdScan" /\ call'[c].pc = "ret"
MdHit(c) == call[c].pc = "mdWrite" /\ call'[c].pc = "ret"

\* Two markDown calls on one endpoint that are in progress at the same time.
Together(c, d) ==
  c # d /\ MdRet(c) /\ MdRet(d) /\ call[c].endpoint = call[d].endpoint

----
\* C1, as claimed: of the concurrent markDown calls on one endpoint that was up
\* when they were called, no two mark a member down (one probe, one transition).
C1_Original ==
  \A c, d \in Callers :
    Together(c, d) /\ call[c].sawUp /\ call[d].sawUp
      => ~(call[c].hit # 0 /\ call[d].hit # 0)

C1_Inv ==
  \A c \in Callers :
    /\ \A k \in Indexes :
         Demoted(c, k) =>
           /\ Down(k)
           /\ members[k].endpoint = call[c].endpoint
           /\ BagCardinality(probes[k]) = 1
    /\ \A d \in Callers :
         Together(c, d) /\ call[c].hit # 0 /\ call[d].hit # 0
           => \/ call[c].hit # call[d].hit
              \/ call[c].recSeen
              \/ call[d].recSeen

C1_Act ==
  \A c \in Callers :
    /\ MdMiss(c) =>
         /\ ~AnyUp(members, call[c].endpoint)
         /\ call'[c].hit = 0
         /\ UNCHANGED <<members, probes>>
    /\ MdHit(c) =>
         LET k == call'[c].hit IN
         /\ k \in Indexes
         /\ Up(k) /\ members[k].endpoint = call[c].endpoint
         /\ members' = [members EXCEPT ![k].status = memberStatusDown]
         /\ BagCardinality(probes'[k]) = BagCardinality(probes[k]) + 1
         /\ \A j \in Indexes \ {k} : probes'[j] = probes[j]

\* C1, amended: among concurrent markDown calls on one endpoint, each call that
\* finds a member with that endpoint up marks exactly that member down and
\* starts exactly one probe for it, a call that finds none changes nothing, and
\* two of the calls both mark a member down only when they mark different
\* members (the endpoint is listed twice) or the recovery write of the member
\* marked first came between them.
C1_Theorem == []C1_Inv /\ [][C1_Act]_vars

C1_Witness ==
  \E c, d \in Callers :
    /\ Together(c, d) /\ call[c].sawUp /\ call[d].sawUp
    /\ call[c].hit # 0 /\ ~call[c].recSeen
    /\ call[d].hit = 0

----
\* C2, as claimed: while a member marked down by markDown(endpoint) has not
\* recovered, nonActiveMembers contains endpoint and activeMembers excludes it;
\* after its recovery write activeMembers contains it and nonActiveMembers
\* excludes it.
C2_Original ==
  [][\A c \in Callers : MlDone(c) =>
       \A d \in Callers, k \in Indexes :
         LET e == call[d].endpoint
             list == call'[c].list
         IN
         /\ Demoted(d, k) =>
              IF call[c].status = memberStatusDown
              THEN InList(e, list) ELSE ~InList(e, list)
         /\ Recovered(d, k) =>
              IF call[c].status = memberStatusUp
              THEN InList(e, list) ELSE ~InList(e, list)]_vars

\* C2, amended: while a member marked down by markDown(endpoint) has not
\* recovered, nonActiveMembers contains endpoint, and activeMembers contains it
\* exactly when another member with the same endpoint is up; after the
\* member's recovery write and until it is marked down again, activeMembers
\* contains endpoint, and nonActiveMembers contains it exactly when another
\* member with the same endpoint is down.
C2_Theorem ==
  [][\A c \in Callers : MlDone(c) =>
       \A d \in Callers, k \in Indexes :
         LET e == call[d].endpoint
             list == call'[c].list
         IN
         /\ Demoted(d, k) =>
              IF call[c].status = memberStatusDown
              THEN InList(e, list)
              ELSE InList(e, list) <=> AnyUp(members, e)
         /\ Recovered(d, k) =>
              IF call[c].status = memberStatusUp
              THEN InList(e, list)
              ELSE InList(e, list) <=> AnyDown(members, e)]_vars

C2_Witness ==
  \E c, d \in Callers, k \in Indexes :
    /\ Demoted(d, k)
    /\ call[c].op = "membersList" /\ call[c].pc = "ret"
    /\ call[c].status = memberStatusDown
    /\ InList(call[d].endpoint, call[c].list)

----
\* C3: getMember returns ErrSwanDown exactly when every member is down in the
\* state it reads, and otherwise the endpoint of a member that is up in it.
C3_Theorem ==
  [][\A c \in Callers : GmDone(c) =>
       /\ call'[c].err = ErrSwanDown <=> \A k \in Indexes : Down(k)
       /\ call'[c].err # ErrSwanDown =>
            /\ call'[c].err = "nil"
            /\ \E k \in Indexes : Up(k) /\ members[k].endpoint = call'[c].ret]_vars

C3_Witness ==
  \E c \in Callers :
    /\ call[c].op = "getMember" /\ call[c].pc = "ret"
    /\ call[c].err = ErrSwanDown
    /\ Len(members) > 1
    /\ \A k \in Indexes : Down(k)

----
\* C4: getMember returns the endpoint of the first member, in the order of
\* c.members, that is up in the state it reads, and no step of getMember
\* changes a status or a probe.
C4_Theorem ==
  [][\A c \in Callers :
       /\ GmDone(c) /\ call'[c].err = "nil" =>
            \E k \in Indexes :
              /\ Up(k)
              /\ \A j \in 1..(k - 1) : Down(j)
              /\ call'[c].ret = members[k].endpoint
       /\ call'[c].op = "getMember" /\ call'[c] # call[c] =>
            UNCHANGED <<members, probes>>]_vars

C4_Witness ==
  \E c \in Callers :
    /\ call[c].op = "getMember" /\ call[c].pc = "ret"
    /\ Len(members) > 1
    /\ Down(1)
    /\ members[2].endpoint # members[1].endpoint
    /\ call[c].ret = members[2].endpoint

----
\* C5: a status changes from up to down only in the write of a markDown call
\* whose endpoint is that member's, and from down to up only in the final
\* write of that member's own probe, which got a response with no error and
\* status code 200.
C5_Theorem ==
  [][\A k \in Indexes :
       /\ Up(k) /\ members'[k].status = memberStatusDown =>
            \E c \in Callers :
              /\ call[c].op = "markDown" /\ call[c].pc = "mdWrite"
              /\ call[c].i = k
              /\ call[c].endpoint = members[k].endpoint
              /\ call'[c].pc = "ret"
       /\ Down(k) /\ members'[k].status = memberStatusUp =>
            \E p \in BagToSet(probes[k]) :
              /\ p.pc = "write"
              /\ p.res.err = FALSE /\ p.res.StatusCode = 200
              /\ probes'[k] = probes[k] (-) SetToBag({p})]_vars

C5_Witness ==
  \E d \in Callers, k \in Indexes :
    /\ Recovered(d, k)
    /\ \E j \in Indexes : Down(j)

----
RECURSIVE LiveProbes(_)
LiveProbes(k) == IF k = 0 THEN 0 ELSE BagCardinality(probes[k]) + LiveProbes(k - 1)

\* C6: every member has at most one probe alive, so the probes alive are never
\* more than the members.
C6_Theorem ==
  /\ \A k \in Indexes : BagCardinality(probes[k]) <= 1
  /\ LiveProbes(Len(members)) <= Len(members)

\* A member marked down, recovered and marked down again, its second probe alive.
C6_Witness ==
  \E c, d \in Callers, k \in Indexes :
    /\ c # d
    /\ MdRet(c) /\ call[c].hit = k /\ call[c].recSeen
    /\ Demoted(d, k)
    /\ BagCardinality(probes[k]) = 1

----
Succeeded(k) ==
  k \in Indexes /\ \E p \in BagToSet(probes[k]) : p.pc \in {"lock", "lockWait", "write"}

\* C7: once a c.client.Get of a member's probe has succeeded, the member
\* becomes up and the probe ends, and the probe makes no further attempt.
C7_Theorem ==
  /\ \A k \in Slots :
       Succeeded(k) ~> (k \in Indexes /\ Up(k) /\ probes[k] = EmptyBag)
  /\ [][\A k \in Indexes :
          Succeeded(k) =>
            \A p \in BagToSet(probes'[k]) : p.pc \in {"lock", "lockWait", "write"}]_vars

\* A probe whose Get succeeded waits in Lock for a reader to leave.
C7_Witness ==
  \E k \in Indexes :
    /\ ProbesAt(k, "lockWait") # {}
    /\ Down(k)
    /\ mu.r > 0

----
\* C8, as claimed: markDown(endpoint) changes nothing while a member marked
\* down by an earlier markDown(endpoint) has not recovered: of two such calls
\* with no recovery write after either, at most one marks a member down.
C8_Original ==
  \A c, d \in Callers :
    Together(c, d) /\ ~call[c].recSeen /\ ~call[d].recSeen
      => ~(call[c].hit # 0 /\ call[d].hit # 0)

\* C8, amended: markDown(endpoint) changes no status and starts no probe
\* whenever no member with that endpoint is up in the state it reads: the
\* endpoint is no member's, or every member with it is already marked down and
\* not yet recovered. (An endpoint listed twice has two members: a second
\* markDown marks the second one down.)
C8_Theorem ==
  [][\A c \in Callers :
       /\ call[c].op = "markDown"
       /\ call[c].pc \in {"mdScan", "mdWrite"}
       /\ call'[c] # call[c]
       /\ ~AnyUp(members, call[c].endpoint)
       => /\ UNCHANGED <<members, probes>>
          /\ call'[c].hit = 0]_vars

\* A markDown on an endpoint already marked down, called after it was, that
\* has changed nothing.
C8_Witness ==
  \E c, d \in Callers, k \in Indexes :
    /\ Together(c, d)
    /\ Demoted(d, k)
    /\ ~call[c].sawUp /\ call[c].hit = 0
    /\ BagCardinality(probes[k]) = 1

----
FailedAttempt(k) == ProbesAt(k, "get") # {} /\ ProbesAt(k, "sleep")' # {}

\* C9: a failed attempt of a probe (it goes on to wait) changes no status, no
\* call and not the lock, and the probe stays: while it waits and when it
\* tries again its member is down and the probe is still there.
C9_Theorem ==
  [][\A k \in Indexes :
       /\ FailedAttempt(k) =>
            /\ UNCHANGED <<members, call, mu>>
            /\ Down(k)
            /\ BagCardinality(probes'[k]) = BagCardinality(probes[k])
       /\ ProbesAt(k, "sleep") # {} =>
            /\ Down(k) /\ members'[k].status = memberStatusDown
            /\ \E p \in BagToSet(probes'[k]) : p.pc \in {"sleep", "get"}]_vars

\* A probe waits after a failed attempt while a getMember has returned a member.
C9_Witness ==
  \E k \in Indexes, c \in Callers :
    /\ ProbesAt(k, "sleep") # {}
    /\ Down(k)
    /\ call[c].op = "getMember" /\ call[c].pc = "ret" /\ call[c].err = "nil"

----
Holders ==
  Cardinality({ c \in Callers : call[c].pc \in {"mdScan", "mdWrite"} })
    + Cardinality({ k \in Indexes : ProbesAt(k, "write") # {} })

Waiters ==
  Cardinality({ c \in Callers : call[c].pc = "mdWait" })
    + Cardinality({ k \in Indexes : ProbesAt(k, "lockWait") # {} })

C10_Inv ==
  /\ Holders = (IF mu.w = "held" THEN 1 ELSE 0)
  /\ Waiters = (IF mu.w = "wait" THEN 1 ELSE 0)
  /\ mu.r = Cardinality({ c \in Callers : call[c].pc \in {"gmScan", "mlScan"} })
  /\ mu.w = "held" => mu.r = 0

\* C10: the lock is held for writing only by a markDown inside its loop or by
\* a probe at its final write (never by a probe that calls Get, waits, or is
\* blocked in Lock), the readers inside are the getMember and membersList
\* calls in their loops, and every getMember and markDown call in progress
\* completes.
C10_Theorem ==
  /\ []C10_Inv
  /\ \A c \in Callers :
       (call[c].op \in {"getMember", "markDown"} /\ call[c].pc # "ret")
         ~> (call[c].pc = "ret")

\* A getMember and a markDown are blocked while a probe holds the lock for its
\* write and another probe waits between attempts.
C10_Witness ==
  \E c, d \in Callers, k, j \in Indexes :
    /\ call[c].pc = "gmRLock"
    /\ call[d].pc = "mdLock"
    /\ ProbesAt(k, "write") # {}
    /\ ProbesAt(j, "sleep") # {}

----
\* What membersList(status) would return on the members ms, taken at once.
RECURSIVE EndpointsWith(_, _)
EndpointsWith(ms, status) ==
  IF ms = <<>> THEN <<>>
  ELSE IF Head(ms).status = status
       THEN <<Head(ms).endpoint>> \o EndpointsWith(Tail(ms), status)
       ELSE EndpointsWith(Tail(ms), status)

\* While membersList scans, what it has collected is the answer for the
\* members it has passed, as they are now.
C11_Inv ==
  \A c \in Callers :
    call[c].pc = "mlScan" =>
      call[c].list = EndpointsWith(SubSeq(members, 1, call[c].i - 1), call[c].status)

C11_Act ==
  \A c \in Callers :
    MlDone(c) =>
      /\ call'[c].list = EndpointsWith(members, call[c].status)
      /\ members' = members
      /\ Len(EndpointsWith(members, memberStatusUp))
           + Len(EndpointsWith(members, memberStatusDown)) = Len(members)

\* C11: membersList(status) returns exactly the endpoints, in members order,
\* of the members whose status is the requested one in one single state (the
\* state in which it finishes: no status write falls inside its scan), and in
\* that state the up list and the down list together have size() entries.
C11_Theorem == []C11_Inv /\ [][C11_Act]_vars

\* A membersList is past the first of two members, has collected it, and a
\* writer (a markDown or a probe) is waiting for it to leave.
C11_Witness ==
  \E c \in Callers :
    /\ call[c].pc = "mlScan"
    /\ call[c].i = 2
    /\ Len(call[c].list) = 1
    /\ mu.w = "wait"

----
\* C17: whenever the lock is not held for writing, a member is down exactly
\* when a probe of it is alive (started by markDown and not yet ended), and up
\* exactly when it has none.
C17_Theorem ==
  mu.w # "held" =>
    \A k \in Indexes :
      /\ Down(k) <=> BagCardinality(probes[k]) = 1
      /\ Up(k) <=> probes[k] = EmptyBag

\* With no writer inside: one member is down with its probe between attempts,
\* another is up again after its probe wrote and ended.
C17_Witness ==
  /\ mu.w # "held"
  /\ \E k, j \in Indexes, d \in Callers :
       /\ Down(k) /\ ProbesAt(k, "sleep") # {}
       /\ Recovered(d, j) /\ probes[j] = EmptyBag

----
\* The member markDown(endpoint) marks: the first that is up with the endpoint.
FirstUp(ms, endpoint) ==
  CHOOSE k \in 1..Len(ms) :
    /\ IsNodeUp(ms[k], endpoint)
    /\ \A j \in 1..(k - 1) : ~IsNodeUp(ms[j], endpoint)

\* A step of c's markDown call.
MdStep(c) == call'[c].op = "markDown" /\ call'[c].pc # call[c].pc

C18_Act ==
  \A c \in Callers :
    /\ MdHit(c) =>
         LET k == FirstUp(members, call[c].endpoint) IN
         /\ AnyUp(members, call[c].endpoint)
         /\ call'[c].hit = k
         /\ members' = [members EXCEPT ![k].status = memberStatusDown]
         /\ probes' = [probes EXCEPT ![k] = @ (+) SetToBag({Probe("get", NoResponse)})]
    /\ MdStep(c) /\ ~MdHit(c) => UNCHANGED <<members, probes>>

\* C18: one markDown(endpoint) call changes the status of at most one member,
\* the first in members order that is up with that endpoint, starts at most
\* one probe (for that member), and leaves every other member, and every
\* member's endpoint, as it was.
C18_Theorem == [][C18_Act]_vars

\* markDown marked the first of two up members that share its endpoint, and
\* the second is still up with no probe.
C18_Witness ==
  \E c \in Callers :
    /\ MdRet(c) /\ call[c].hit = 1 /\ ~call[c].recSeen
    /\ Len(members) = 2
    /\ members[2].endpoint = call[c].endpoint
    /\ Up(2) /\ probes[2] = EmptyBag

----
\* newCluster: strings. A Go string is modelled as the sequence of its bytes,
\* each a one-character string. The endpoint lists considered are made of
\* letters, digits, '.', ':', '/' and ','; on these url.Parse never takes its
\* branches for '#', '?', '%', '@', '[', '*', spaces and control bytes.

LowerCase ==
  <<"a", "b", "c", "d", "e", "f", "g", "h", "i", "j", "k", "l", "m",
    "n", "o", "p", "q", "r", "s", "t", "u", "v", "w", "x", "y", "z">>

UpperCase ==
  <<"A", "B", "C", "D", "E", "F", "G", "H", "I", "J", "K", "L", "M",
    "N", "O", "P", "Q", "R", "S", "T", "U", "V", "W", "X", "Y", "Z">>

Letters == { LowerCase[i] : i \in DOMAIN LowerCase } \cup { UpperCase[i] : i \in DOMAIN UpperCase }

Digits == {"0", "1", "2", "3", "4", "5", "6", "7", "8", "9"}

\* The Go string of a byte sequence.
RECURSIVE Str(_)
Str(s) == IF s = <<>> THEN "" ELSE Head(s) \o Str(Tail(s))

\* strings.ToLower
ToLower(s) ==
  [i \in DOMAIN s |->
     IF \E j \in DOMAIN UpperCase : UpperCase[j] = s[i]
     THEN LowerCase[CHOOSE j \in DOMAIN UpperCase : UpperCase[j] = s[i]]
     ELSE s[i]]

\* strings.HasPrefix
HasPrefix(s, prefix) ==
  Len(s) >= Len(prefix) /\ SubSeq(s, 1, Len(prefix)) = prefix

\* strings.IndexByte and strings.LastIndexByte, counting from 1; 0 for none.
Index(s, c) ==
  IF \E i \in DOMAIN s : s[i] = c
  THEN CHOOSE i \in DOMAIN s : s[i] = c /\ \A j \in 1..(i - 1) : s[j] # c
  ELSE 0

LastIndex(s, c) ==
  IF \E i \in DOMAIN s : s[i] = c
  THEN CHOOSE i \in DOMAIN s : s[i] = c /\ \A j \in (i + 1)..Len(s) : s[j] # c
  ELSE 0

From(s, i) == SubSeq(s, i, Len(s))

RECURSIVE SplitNonEmpty(_, _)
SplitNonEmpty(s, sep) ==
  LET i == Index(s, sep)
      piece == IF i = 0 THEN s ELSE SubSeq(s, 1, i - 1)
      first == IF piece = <<>> THEN <<>> ELSE <<piece>> IN
  IF i = 0 THEN first ELSE first \o SplitNonEmpty(From(s, i + 1), sep)

\* strings.Split(s, sep) for a one-byte separator: one more piece than there
\* are separators, empty pieces included.
RECURSIVE Split(_, _)
Split(s, sep) ==
  LET i == Index(s, sep) IN
  IF i = 0 THEN <<s>>
  ELSE <<SubSeq(s, 1, i - 1)>> \o Split(From(s, i + 1), sep)

----
\* newCluster: url.Parse and URL.String of Go's net/url, as newCluster uses
\* them (lines 50, 63 and 75).

URL(scheme, opaque, host, path, omitHost) ==
  [err |-> "nil", Scheme |-> scheme, Opaque |-> opaque, Host |-> host,
   Path |-> path, OmitHost |-> omitHost]

ParseError(reason) ==
  [err |-> reason, Scheme |-> <<>>, Opaque |-> <<>>, Host |-> <<>>,
   Path |-> <<>>, OmitHost |-> FALSE]

\* url.getScheme: the bytes before the first ':' when they are a letter
\* followed by letters, digits, '+', '-' and '.'; else no scheme.
RECURSIVE getScheme(_, _)
getScheme(rawURL, i) ==
  IF i > Len(rawURL)
  THEN [err |-> "nil", scheme |-> <<>>, path |-> rawURL]
  ELSE LET c == rawURL[i] IN
       IF c \in Letters
       THEN getScheme(rawURL, i + 1)
       ELSE IF c \in Digits \cup {"+", "-", "."}
       THEN IF i = 1
            THEN [err |-> "nil", scheme |-> <<>>, path |-> rawURL]
            ELSE getScheme(rawURL, i + 1)
       ELSE IF c = ":"
       THEN IF i = 1
            THEN [err |-> "missing protocol scheme", scheme |-> <<>>, path |-> <<>>]
            ELSE [err |-> "nil", scheme |-> SubSeq(rawURL, 1, i - 1),
                  path |-> From(rawURL, i + 1)]
       ELSE [err |-> "nil", scheme |-> <<>>, path |-> rawURL]

\* url.validOptionalPort: "" or ':' followed by digits only.
validOptionalPort(port) ==
  \/ port = <<>>
  \/ Head(port) = ":" /\ \A i \in 2..Len(port) : port[i] \in Digits

\* url.parseHost: what follows the last ':' of the host must be a port.
validPort(host) ==
  LET i == LastIndex(host, ":") IN
  i = 0 \/ validOptionalPort(From(host, i))

\* url.Parse
Parse(rawURL) ==
  LET s == getScheme(rawURL, 1)
      scheme == ToLower(s.scheme)
      rest == s.path
      segment == IF Index(rest, "/") = 0 THEN rest
                 ELSE SubSeq(rest, 1, Index(rest, "/") - 1)
      after == From(rest, 3)
      authority == IF Index(after, "/") = 0 THEN after
                   ELSE SubSeq(after, 1, Index(after, "/") - 1)
      path == IF Index(after, "/") = 0 THEN <<>> ELSE From(after, Index(after, "/")) IN
  IF s.err # "nil" THEN ParseError(s.err)
  ELSE IF ~HasPrefix(rest, <<"/">>) /\ scheme # <<>>
  THEN URL(scheme, rest, <<>>, <<>>, FALSE)
  ELSE IF ~HasPrefix(rest, <<"/">>) /\ Index(segment, ":") # 0
  THEN ParseError("first path segment in URL cannot contain colon")
  ELSE IF (scheme # <<>> \/ ~HasPrefix(rest, <<"/", "/", "/">>))
            /\ HasPrefix(rest, <<"/", "/">>)
  THEN IF validPort(authority)
       THEN URL(scheme, <<>>, authority, path, FALSE)
       ELSE ParseError("invalid port after host")
  ELSE URL(scheme, <<>>, <<>>, rest, scheme # <<>> /\ HasPrefix(rest, <<"/">>))

\* URL.String
URLString(u) ==
  LET schemePart == IF u.Scheme # <<>> THEN u.Scheme \o <<":">> ELSE <<>>
      slashes == IF u.Scheme # <<>> \/ u.Host # <<>>
                 THEN IF u.OmitHost /\ u.Host = <<>> THEN <<>>
                      ELSE IF u.Host # <<>> \/ u.Path # <<>> THEN <<"/", "/">>
                      ELSE <<>>
                 ELSE <<>>
      rooted == IF u.Path # <<>> /\ Head(u.Path) # "/" /\ u.Host # <<>>
                THEN <<"/">> ELSE <<>>
      segment == IF Index(u.Path, "/") = 0 THEN u.Path
                 ELSE SubSeq(u.Path, 1, Index(u.Path, "/") - 1)
      dot == IF schemePart = <<>> /\ u.Host = <<>> /\ Index(segment, ":") # 0
             THEN <<".", "/">> ELSE <<>> IN
  IF u.Opaque # <<>>
  THEN schemePart \o u.Opaque
  ELSE schemePart \o slashes \o u.Host \o rooted \o dot \o u.Path

----
\* newCluster

http == <<"h", "t", "t", "p">>
https == <<"h", "t", "t", "p", "s">>

\* The protocol a first endpoint may have (line 56).
AnyProto(scheme) == TRUE

SupportedProto(scheme) == scheme = http \/ scheme = https

\* The endpoints that are parsed again with the default protocol (line 62).
NoScheme(u) == u.Scheme = <<>>

NeedsProto(u) == u.Scheme = <<>> \/ u.Opaque # <<>>

\* One round of the loop of newCluster on one endpoint, with the default
\* protocol found so far: an error returned, a panic, or a member to append.
Round(endpoint, defaultProto) ==
  LET u == Parse(endpoint)
      proto == IF defaultProto = <<>> THEN u.Scheme ELSE defaultProto
      urlWithScheme == proto \o <<":", "/", "/">> \o URLString(u)
      v == IF NeedsProto(u) THEN Parse(urlWithScheme) ELSE u
      out(kind, err) == [kind |-> kind, err |-> err, defaultProto |-> proto,
                         endpoint |-> IF kind = "member" THEN URLString(v) ELSE <<>>] IN
  IF endpoint = <<>> THEN out("error", "endpoint is blank")
  ELSE IF u.err # "nil" THEN out("error", "is invalid")
  ELSE IF defaultProto = <<>> /\ ~SupportedProto(u.Scheme)
  THEN out("error", "protocol must be (http|https)")
  ELSE IF v.err # "nil" THEN out("panic", "unexpected parsing error")
  ELSE IF v.Host = <<>> THEN out("error", "must have a host")
  ELSE out("member", "nil")

\* The rounds of newCluster from endpoint i on, and what newCluster returns.
RECURSIVE Rounds(_, _, _, _)
Rounds(endpoints, i, defaultProto, ms) ==
  IF i > Len(endpoints)
  THEN [kind |-> "cluster", err |-> "nil", members |-> ms]
  ELSE LET r == Round(endpoints[i], defaultProto) IN
       IF r.kind = "member"
       THEN Rounds(endpoints, i + 1, r.defaultProto, Append(ms, NewMember(Str(r.endpoint))))
       ELSE [kind |-> r.kind, err |-> r.err, members |-> <<>>]

newCluster(swanURL) == Rounds(Split(swanURL, ","), 1, <<>>, <<>>)

\* The endpoints the lists are made of: "", "a", "b", "http://a", "http://h1",
\* "h2:9090", "ftp://host", "HTTPS://b", "x:y", "http://", ":80", "1.2:80",
\* "/a" and "http:a".
Pool ==
  { <<>>,
    <<"a">>,
    <<"b">>,
    <<"h", "t", "t", "p", ":", "/", "/", "a">>,
    <<"h", "t", "t", "p", ":", "/", "/", "h", "1">>,
    <<"h", "2", ":", "9", "0", "9", "0">>,
    <<"f", "t", "p", ":", "/", "/", "h", "o", "s", "t">>,
    <<"H", "T", "T", "P", "S", ":", "/", "/", "b">>,
    <<"x", ":", "y">>,
    <<"h", "t", "t", "p", ":", "/", "/">>,
    <<":", "8", "0">>,
    <<"1", ".", "2", ":", "8", "0">>,
    <<"/", "a">>,
    <<"h", "t", "t", "p", ":", "a">> }

MaxTokens == 3

RECURSIVE Join(_)
Join(ts) ==
  IF Len(ts) = 1 THEN Head(ts) ELSE Head(ts) \o <<",">> \o Join(Tail(ts))

\* The swanURL arguments: lists of 1..MaxTokens endpoints of Pool.
SwanURLs == { Join(ts) : ts \in UNION { [1..n -> Pool] : n \in 1..MaxTokens } }

NcInit ==
  /\ members = <<>>
  /\ mu = [w |-> "free", r |-> 0]
  /\ probes = <<>>
  /\ \E swanURL \in SwanURLs :
       call = [op |-> "newCluster", pc |-> "split", swanURL |-> swanURL,
               endpoints |-> <<>>, i |-> 0, defaultProto |-> <<>>,
               members |-> <<>>, err |-> "nil"]

NcSplit ==
  /\ call.pc = "split"
  /\ call' = [call EXCEPT !.pc = "range", !.i = 1,
                          !.endpoints = Split(call.swanURL, ",")]
  /\ UNCHANGED <<members, mu, probes>>

NcRound ==
  /\ call.pc = "range"
  /\ call.i <= Len(call.endpoints)
  /\ LET r == Round(call.endpoints[call.i], call.defaultProto) IN
     IF r.kind = "member"
     THEN call' = [call EXCEPT !.i = @ + 1, !.defaultProto = r.defaultProto,
                               !.members = Append(@, [endpoint |-> r.endpoint,
                                                      status |-> memberStatusUp])]
     ELSE call' = [call EXCEPT !.pc = r.kind, !.err = r.err]
  /\ UNCHANGED <<members, mu, probes>>

NcReturn ==
  /\ call.pc = "range"
  /\ call.i > Len(call.endpoints)
  /\ members' = [k \in DOMAIN call.members |-> NewMember(Str(call.members[k].endpoint))]
  /\ probes' = [k \in DOMAIN call.members |-> EmptyBag]
  /\ call' = [call EXCEPT !.pc = "cluster"]
  /\ UNCHANGED mu

NcNext == NcSplit \/ NcRound \/ NcReturn

NcSpec == NcInit /\ [][NcNext]_vars

----
\* Vocabulary of the properties of newCluster.

\* newCluster has returned a cluster, returned an error, or panicked.
NcEnded == call.pc \in {"cluster", "error", "panic"}
NcError(err) == call.pc = "error" /\ call.err = err

\* The list has an empty segment: it is empty, starts or ends with a comma,
\* or has two commas in a row.
HasEmptySegment(s) ==
  \/ s = <<>>
  \/ s[1] = "," \/ s[Len(s)] = ","
  \/ \E i \in 1..(Len(s) - 1) : s[i] = "," /\ s[i + 1] = ","

\* The index of the first empty endpoint.
FirstBlank(endpoints) ==
  CHOOSE k \in DOMAIN endpoints :
    endpoints[k] = <<>> /\ \A j \in 1..(k - 1) : endpoints[j] # <<>>

\* C13, as claimed: newCluster on a list with an empty segment, such as
\* "a,,b", fails with the blank-endpoint error and returns no cluster.
C13_Original ==
  NcEnded /\ HasEmptySegment(call.swanURL)
    => NcError("endpoint is blank") /\ members = <<>>

\* C13: newCluster on a list with an empty segment returns no cluster and
\* stops at or before the first empty endpoint; it fails with the
\* blank-endpoint error exactly when it stops at that endpoint, every earlier
\* one having passed (as on "http://a,,b"), and otherwise with the error, or
\* the panic, of an earlier endpoint: "a,,b" fails on "a" with the protocol
\* error.
C13_Theorem ==
  NcEnded /\ HasEmptySegment(call.swanURL) =>
    /\ call.pc # "cluster" /\ members = <<>>
    /\ call.i <= FirstBlank(call.endpoints)
    /\ NcError("endpoint is blank") <=> call.i = FirstBlank(call.endpoints)
    /\ call.swanURL = <<"a", ",", ",", "b">>
         => NcError("protocol must be (http|https)") /\ call.i = 1
    /\ call.swanURL = <<"h", "t", "t", "p", ":", "/", "/", "a", ",", ",", "b">>
         => NcError("endpoint is blank") /\ call.i = 2

\* newCluster failed with the blank-endpoint error on the second of three
\* endpoints, after the first passed.
C13_Witness ==
  /\ NcError("endpoint is blank")
  /\ call.i = 2 /\ Len(call.endpoints) = 3
  /\ Len(call.members) = 1
  /\ members = <<>>

----
\* C14: newCluster fails with the protocol error exactly when its first
\* endpoint parses and the scheme parsed is not http or https ("ftp://host",
\* or "a", which has no scheme), and then returns no cluster; the check is made
\* on the first endpoint only, and once that endpoint has passed, its scheme is
\* the default protocol for the rest of the list.
C14_Theorem ==
  NcEnded =>
    LET u == Parse(call.endpoints[1]) IN
    /\ NcError("protocol must be (http|https)")
         <=> /\ call.endpoints[1] # <<>>
             /\ u.err = "nil"
             /\ u.Scheme # http /\ u.Scheme # https
    /\ NcError("protocol must be (http|https)") => call.i = 1 /\ members = <<>>
    /\ call.i > 1 => call.defaultProto = u.Scheme /\ u.Scheme \in {http, https}
    /\ call.endpoints[1] \in {<<"f", "t", "p", ":", "/", "/", "h", "o", "s", "t">>, <<"a">>}
         => NcError("protocol must be (http|https)")

\* newCluster failed with the protocol error on a list of several endpoints
\* whose first parses with the scheme ftp.
C14_Witness ==
  /\ NcError("protocol must be (http|https)")
  /\ Parse(call.endpoints[1]).Scheme = <<"f", "t", "p">>
  /\ Len(call.endpoints) > 1
  /\ call.i = 1 /\ members = <<>>

----
\* C15: an endpoint after the first that parses with no scheme, or as opaque,
\* is parsed again with the default protocol and "://" put before it, and
\* becomes a member with that scheme ("http://h1,h2:9090" gives the members
\* http://h1 and http://h2:9090, the second with host h2:9090); an endpoint
\* with a scheme of its own and not opaque becomes a member as parsed; the
\* members of a cluster returned are all up, one per endpoint, in the order of
\* the list, equal endpoints included.
C15_Theorem ==
  /\ call.pc = "cluster" =>
       /\ Len(members) = Len(call.endpoints)
       /\ \A k \in DOMAIN members :
            LET u == Parse(call.endpoints[k])
                e == call.members[k].endpoint IN
            /\ members[k] = [endpoint |-> Str(e), status |-> memberStatusUp]
            /\ k > 1 /\ (u.Scheme = <<>> \/ u.Opaque # <<>>) =>
                 /\ e = call.defaultProto \o <<":", "/", "/">> \o call.endpoints[k]
                 /\ Parse(e).Scheme = call.defaultProto
                 /\ Parse(e).Opaque = <<>>
            /\ u.Scheme # <<>> /\ u.Opaque = <<>> => e = URLString(u)
  /\ NcEnded /\ call.swanURL = <<"h", "t", "t", "p", ":", "/", "/", "h", "1", ",",
                                 "h", "2", ":", "9", "0", "9", "0">> =>
       /\ members = <<NewMember("http://h1"), NewMember("http://h2:9090")>>
       /\ Parse(call.members[2].endpoint).Scheme = http
       /\ Parse(call.members[2].endpoint).Host = <<"h", "2", ":", "9", "0", "9", "0">>

\* newCluster returned three members that are up: the second is the first
\* again, made from an endpoint with no scheme, and the third was parsed as
\* opaque.
C15_Witness ==
  /\ call.pc = "cluster"
  /\ Len(members) = 3
  /\ members[2] = members[1]
  /\ call.endpoints[2] # call.endpoints[1]
  /\ Parse(call.endpoints[3]).Opaque # <<>>
  /\ \A k \in 1..3 : Up(k)

----
\* C16, as claimed: newCluster returns the error of the first endpoint, from
\* the left, that fails a check (blank, malformed, protocol of the first,
\* no host) and no cluster, and returns a cluster of one member or more when
\* no endpoint fails one.
C16_Original ==
  NcEnded =>
    LET proto(k) == IF k = 1 THEN <<>> ELSE Parse(call.endpoints[1]).Scheme
        result(k) == Round(call.endpoints[k], proto(k))
        failing == { k \in DOMAIN call.endpoints : result(k).kind = "error" } IN
    IF failing # {}
    THEN /\ call.pc = "error"
         /\ call.i \in failing /\ \A k \in failing : call.i <= k
         /\ call.err = result(call.i).err
         /\ members = <<>>
    ELSE /\ call.pc = "cluster"
         /\ Len(members) >= 1

\* newCluster panicked on its second endpoint, parsed as opaque, which fails
\* none of the checks; the third endpoint is blank.
C16_Witness ==
  /\ call.pc = "panic"
  /\ call.i = 2
  /\ Parse(call.endpoints[2]).err = "nil"
  /\ Parse(call.endpoints[2]).Opaque # <<>>
  /\ Len(call.endpoints) = 3 /\ call.endpoints[3] = <<>>

----
\* C19, as claimed: every member of a cluster that newCluster returns has the
\* scheme http or https, whatever its place in the list, so the probe only
\* calls Get on http and https addresses.
C19_Original ==
  call.pc = "cluster" =>
    \A k \in DOMAIN members :
      Parse(call.members[k].endpoint).Scheme \in {http, https}

\* newCluster returned a cluster whose second member is ftp://host.
C19_Witness ==
  /\ call.pc = "cluster"
  /\ Len(members) >= 2
  /\ members[2].endpoint = "ftp://host"
  /\ Parse(call.members[1].endpoint).Scheme = http

----
\* The number of comma-separated tokens of a list: its commas and one.
NumTokens(s) == Cardinality({ i \in DOMAIN s : s[i] = "," }) + 1

EndpointsOf(ms) == [k \in DOMAIN ms |-> ms[k].endpoint]

\* What newCluster builds from the lists it accepts: the number of tokens of
\* the list, and the endpoints of the members.
Built ==
  { [tokens |-> NumTokens(s), endpoints |-> EndpointsOf(newCluster(s).members)] :
      s \in { t \in SwanURLs : newCluster(t).kind = "cluster" } }

C12_Inv ==
  /\ \E b \in Built :
       /\ EndpointsOf(members) = b.endpoints
       /\ \A c \in Callers :
            call[c].op = "size" /\ call[c].pc = "ret" => call[c].n = b.tokens
  /\ \A c \in Callers :
       call[c].op = "size" /\ call[c].pc = "ret" => call[c].n = Len(members)

C12_Act == EndpointsOf(members') = EndpointsOf(members)

\* C12: size() returns the number of comma-separated tokens of the list the
\* cluster was built from, whatever was called since and whatever the
\* statuses are; no step adds, removes, reorders or rewrites a member's
\* endpoint.
C12_Theorem == []C12_Inv /\ [][C12_Act]_vars

\* size() returns 2 while one of the two members is down and the other has
\* been down and is up again.
C12_Witness ==
  \E c, d \in Callers, k, j \in Indexes :
    /\ call[c].op = "size" /\ call[c].pc = "ret" /\ call[c].n = 2
    /\ Down(k)
    /\ Recovered(d, j)

====
